---- MODULE Spec2Model ----
(***************************************************************************)
(* Model of the MCP-Expokossodo tool gateway (gfxjef/mcp_expokossodo2025): *)
(* attendance confirmation on the store (app/db/queries.py), RBAC and the  *)
(* in-memory rate limiter (app/auth.py), the Redis cache helpers           *)
(* (app/cache/redis_client.py), the statistics service                     *)
(* (app/services/estadisticas.py) and the tool endpoints                   *)
(* (app/api/tools.py, app/main.py).                                        *)
(*                                                                         *)
(* Each subsystem has its own next-state relation over the shared          *)
(* variables; a specification fixes which operations run.                  *)
(***************************************************************************)
EXTENDS Integers, Sequences, FiniteSets, TLC

VARIABLES
    \* ---- store: expokossodo_asistencias_por_sala and the running calls
    asistencias,    \* set of rows of the attendance table
    nextId,         \* next auto-increment primary key
    dbClock,        \* logical CURRENT_TIMESTAMP of the store (commit count)
    fkEnforced,     \* whether the store enforces the declared foreign keys
    calls,          \* per request slot: the running confirmar_asistencia call
    answered,       \* number of confirmarAsistencia calls answered so far
    lastResponse    \* the most recent answer of confirmarAsistencia

VARIABLES
    \* ---- RBAC (app/auth.py)
    rolePermissions,  \* the module-level ROLE_PERMISSIONS table
    authResult        \* outcome of the last resolution of require_permission

VARIABLES
    \* ---- rate limiter (app/auth.py)
    now,            \* time(): the wall clock, in seconds
    ticks,          \* number of clock advances so far
    requests,       \* RateLimiter.requests: key -> list of timestamps
    admitted,       \* history: key -> timestamps of every admitted request
    rateResult      \* outcome of the last check_rate_limit

asistVars == <<asistencias, nextId, dbClock, fkEnforced, calls, answered, lastResponse>>
authVars == <<rolePermissions, authResult>>

VARIABLES
    \* ---- cache (app/cache/redis_client.py)
    redis,          \* RedisCache.redis: whether a client object is held
    connected,      \* RedisCache.connected
    backend,        \* whether the Redis server answers: "up" or "down"
    redisData,      \* the server's content: key -> its live entry, if any
    cacheResult     \* outcome of the last cache operation or tool call

rateVars == <<now, ticks, requests, admitted, rateResult>>

cacheVars == <<redis, connected, backend, redisData, cacheResult>>

VARIABLES
    \* ---- statistics (app/services/estadisticas.py)
    statsResult     \* outcome of the last getEstadisticas call

statsVars == <<statsResult>>

VARIABLES
    \* ---- gateway (app/api/tools.py, app/main.py)
    response        \* the response to the last request to a tool endpoint

gatewayVars == <<response>>

VARIABLES
    \* ---- cache helpers as functions (app/cache/redis_client.py)
    roundTrip,      \* the last value stored and read back on RedisCache
    keyResult       \* the keys get_cache_key gave to the last two calls

codecVars == <<roundTrip, keyResult>>

VARIABLES
    \* ---- requests to a rate-limited endpoint on the event loop
    rateCalls       \* per request slot: the request in flight and its outcome

rateCallVars == <<rateCalls>>

VARIABLES
    \* ---- confirmarAsistencia as a function of its input
    estadoRuns      \* a store and the outcomes of one call under two estados

estadoVars == <<estadoRuns>>

vars == <<asistVars, authVars, rateVars, cacheVars, statsVars, gatewayVars, codecVars,
          rateCallVars, estadoVars>>

None == "None"

\* ------------------------------------------------------------------ bounds
\* Calls of confirmarAsistencia started in one behaviour.
MaxCalls == 3
\* Advances of the clock in one behaviour.
MaxTicks == 2
\* Attendance confirmations in range, at most.
MaxAsistieron == 2
\* The largest number stored in the cache as a value.
MaxNumber == 2
\* Calls of confirmarAsistencia compared under two estados, one after another.
MaxRuns == 2

\* ------------------------------------------------------------------ store
\* Rows of expokossodo_registros / expokossodo_eventos that exist; the
\* gateway never inserts into either table.
Registros == {1}
Eventos == {1}
\* Ids a caller may send.
RegIds == {1, 2}
EvtIds == {1, 2}
Observaciones == {None, "nota"}
Estados == {"PRESENTE", "AUSENTE", "TARDE"}

\* Requests that may be in flight at the same time, each with what the
\* handler takes from the caller: user.username and request.client.host
\* (None when the request carries no client address).
Sessions == {"s1", "s2"}
Username(p) == IF p = "s1" THEN "ana" ELSE "luis"
ClientIp(p) == IF p = "s1" THEN "10.0.0.1" ELSE None

\* ExpoRegistros.qr_code of a registration; the scalar() of a SELECT with no
\* row is None, written <<>> here.
QrCode(registro_id) ==
    IF registro_id \in Registros THEN <<"qr", registro_id>> ELSE <<>>

\* The rows the existence check selects.
ExistingRows(registro_id, evento_id) ==
    {a \in asistencias : a.registro_id = registro_id /\ a.evento_id = evento_id}

\* The foreign keys of ExpoAsistenciasPorSala hold for an inserted row.
ForeignKeysHold(registro_id, evento_id) ==
    registro_id \in Registros /\ evento_id \in Eventos

\* new_asistencia = ExpoAsistenciasPorSala(...)
NewAsistencia(id, inp, stamp) ==
    [id |-> id,
     registro_id |-> inp.registroId,
     evento_id |-> inp.eventoId,
     \* qr_code or f"manual_{registro_id}_{evento_id}"
     qr_escaneado |-> IF QrCode(inp.registroId) # <<>>
                      THEN QrCode(inp.registroId)
                      ELSE <<"manual", inp.registroId, inp.eventoId>>,
     fecha_ingreso |-> stamp,
     asesor_verificador |-> inp.asesor,
     ip_verificacion |-> inp.ip,
     notas |-> inp.observacion]

\* The update branch without the assignment of asesor_verificador.
UpdatedExistingKeepsVerifier(existing, inp) ==
    [existing EXCEPT
        !.notas = IF inp.observacion # None THEN inp.observacion ELSE @,
        !.ip_verificacion = IF inp.ip # None THEN inp.ip ELSE @]

\* An update branch that assigns the note whether or not one was sent.
UpdatedExistingAssignsNote(existing, inp) ==
    [existing EXCEPT
        !.asesor_verificador = inp.asesor,
        !.notas = inp.observacion,
        !.ip_verificacion = IF inp.ip # None THEN inp.ip ELSE @]

\* The attribute assignments of the update branch, applied to the row as it
\* was loaded by the SELECT.
UpdatedExisting(existing, inp) ==
    [existing EXCEPT
        !.asesor_verificador = inp.asesor,
        !.notas = IF inp.observacion # None THEN inp.observacion ELSE @,
        !.ip_verificacion = IF inp.ip # None THEN inp.ip ELSE @]

\* The UPDATE the unit of work flushes at commit: only the attributes whose
\* value differs from the loaded one are written, fecha_ingreso (a SQL
\* expression) always; every other column keeps the row's current value.
FlushUpdate(row, existing, inp, stamp) ==
    LET upd == UpdatedExisting(existing, inp) IN
    [row EXCEPT
        !.asesor_verificador =
            IF upd.asesor_verificador # existing.asesor_verificador
            THEN upd.asesor_verificador ELSE @,
        !.notas = IF upd.notas # existing.notas THEN upd.notas ELSE @,
        !.ip_verificacion =
            IF upd.ip_verificacion # existing.ip_verificacion
            THEN upd.ip_verificacion ELSE @,
        !.fecha_ingreso = stamp]

IdleCall == [pc |-> "idle"]

\* ConfirmarAsistenciaInput
AsistInputs ==
    [registroId : RegIds, eventoId : EvtIds, estado : Estados,
     observacion : Observaciones]

NoResponse == [status |-> 0]

\* The handler's answer: ConfirmarAsistenciaOutput (200), or the
\* HTTPException it raises. "found" tells whether the existence check of the
\* call had found a row.
Respond(p, c, status, found) ==
    /\ lastResponse' = [status |-> status, session |-> p,
                        registroId |-> c.registroId, eventoId |-> c.eventoId,
                        asesor |-> c.asesor, found |-> found]
    /\ answered' = answered + 1
    /\ calls' = [calls EXCEPT ![p] = IdleCall]

\* Arguments in which the estado sent by the caller is kept as the note.
QueryArgsEstadoAsNote(p, inp) ==
    [pc |-> "commit",
     registroId |-> inp.registroId, eventoId |-> inp.eventoId,
     asesor |-> Username(p), observacion |-> inp.estado,
     ip |-> ClientIp(p), existing |-> {}]

\* The arguments the handler and the service pass to
\* AsistenciaQueries.confirmar_asistencia; estado is passed and never read.
QueryArgs(p, inp) ==
    [pc |-> "commit",
     registroId |-> inp.registroId, eventoId |-> inp.eventoId,
     asesor |-> Username(p), observacion |-> inp.observacion,
     ip |-> ClientIp(p), existing |-> {}]

\* A scalar accessor that takes what it is given, however many rows.
MultipleResultsIgnored(rows) == FALSE

\* existing_result.scalar_one_or_none() raises MultipleResultsFound when the
\* SELECT returned more than one row.
MultipleResultsFound(rows) == Cardinality(rows) > 1

\* confirmar_asistencia up to the await of the existence check: the SELECT
\* and scalar_one_or_none(), which raises MultipleResultsFound on two rows
\* (the handler answers 500). "existing" holds the loaded row, or nothing.
SelectExisting(p, inp) ==
    /\ UNCHANGED <<authVars, rateVars, cacheVars, statsVars, gatewayVars, codecVars, rateCallVars, estadoVars>>
    /\ calls[p].pc = "idle"
    /\ answered + Cardinality({q \in Sessions : calls[q].pc # "idle"}) < MaxCalls
    /\ LET rows == ExistingRows(inp.registroId, inp.eventoId) IN
       IF MultipleResultsFound(rows)
       THEN /\ Respond(p, QueryArgs(p, inp), 500, TRUE)
            /\ UNCHANGED <<asistencias, nextId, dbClock, fkEnforced>>
       ELSE /\ calls' = [calls EXCEPT ![p] = [QueryArgs(p, inp) EXCEPT !.existing = rows]]
            /\ UNCHANGED <<asistencias, nextId, dbClock, fkEnforced, answered, lastResponse>>

\* The rest of confirmar_asistencia: the update of the loaded row or the
\* insert of a new one, flushed by commit(); then the service and the
\* handler build the answer.
CommitAsistencia(p) ==
    /\ UNCHANGED <<authVars, rateVars, cacheVars, statsVars, gatewayVars, codecVars, rateCallVars, estadoVars>>
    /\ calls[p].pc = "commit"
    /\ LET c == calls[p]
           existing == CHOOSE a \in c.existing : TRUE
       IN
       IF c.existing # {}
       THEN /\ asistencias' =
                 {IF a.id = existing.id
                  THEN FlushUpdate(a, existing, c, dbClock + 1) ELSE a
                  : a \in asistencias}
            /\ dbClock' = dbClock + 1
            /\ Respond(p, c, 200, TRUE)
            /\ UNCHANGED <<nextId, fkEnforced>>
       ELSE IF fkEnforced /\ ~ForeignKeysHold(c.registroId, c.eventoId)
       THEN \* IntegrityError at flush: rollback, 500
            /\ Respond(p, c, 500, FALSE)
            /\ UNCHANGED <<asistencias, nextId, dbClock, fkEnforced>>
       ELSE /\ asistencias' = asistencias \cup {NewAsistencia(nextId, c, dbClock + 1)}
            /\ nextId' = nextId + 1
            /\ dbClock' = dbClock + 1
            /\ Respond(p, c, 200, FALSE)
            /\ UNCHANGED fkEnforced

\* One whole confirmarAsistencia call of session p on a store, with no other
\* call in between: the status of the answer and the store it leaves.
RunConfirmar(store, next_id, stamp, p, inp) ==
    LET rows == {a \in store : a.registro_id = inp.registroId /\ a.evento_id = inp.eventoId}
        c == [QueryArgs(p, inp) EXCEPT !.existing = rows]
        existing == CHOOSE a \in rows : TRUE
    IN
    IF MultipleResultsFound(rows) THEN [status |-> 500, store |-> store]
    ELSE IF rows # {}
    THEN [status |-> 200,
          store |-> {IF a.id = existing.id THEN FlushUpdate(a, existing, c, stamp) ELSE a
                     : a \in store}]
    ELSE IF fkEnforced /\ ~ForeignKeysHold(inp.registroId, inp.eventoId)
    THEN [status |-> 500, store |-> store]
    ELSE [status |-> 200, store |-> store \cup {NewAsistencia(next_id, c, stamp)}]

NoEstadoRuns ==
    [runs |-> 0, store |-> {}, next_id |-> 1, clock |-> 0,
     first |-> None, second |-> None,
     first_out |-> [status |-> 0, store |-> {}],
     second_out |-> [status |-> 0, store |-> {}]]

\* The same call made on the same store with the estado the caller sent and
\* with another one; the store then goes on from the first outcome.
ConfirmWithEstados(p, inp, other) ==
    /\ estadoRuns.runs < MaxRuns
    /\ LET r == estadoRuns
           out1 == RunConfirmar(r.store, r.next_id, r.clock + 1, p, inp)
           out2 == RunConfirmar(r.store, r.next_id, r.clock + 1, p,
                                [inp EXCEPT !.estado = other])
       IN estadoRuns' =
            [runs |-> r.runs + 1, store |-> out1.store,
             next_id |-> IF Cardinality(out1.store) > Cardinality(r.store)
                         THEN r.next_id + 1 ELSE r.next_id,
             clock |-> IF out1.status = 200 THEN r.clock + 1 ELSE r.clock,
             first |-> inp.estado, second |-> other,
             first_out |-> out1, second_out |-> out2]
    /\ UNCHANGED <<asistVars, authVars, rateVars, cacheVars, statsVars, gatewayVars, codecVars, rateCallVars>>

InitEstado == estadoRuns = NoEstadoRuns

InitAsist ==
    /\ asistencias = {}
    /\ nextId = 1
    /\ dbClock = 0
    /\ fkEnforced \in BOOLEAN
    /\ calls = [p \in Sessions |-> IdleCall]
    /\ answered = 0
    /\ lastResponse = NoResponse

\* ------------------------------------------------------------------- RBAC
\* class UserRole
Roles == {"LECTOR", "STAFF_PUERTA", "COORDINADOR"}

\* The tools with an endpoint (app/api/tools.py).
ToolNames ==
    {"getEventos", "getInscritos", "getAforo", "confirmarAsistencia",
     "getEstadisticas", "buscarRegistro", "mapaSalaEvento"}

\* ROLE_PERMISSIONS: each role's list of tool names.
ROLE_PERMISSIONS ==
    [r \in Roles |->
        CASE r = "LECTOR" ->
               <<"getEventos", "getInscritos", "getAforo", "getEstadisticas",
                 "buscarRegistro", "mapaSalaEvento">>
          [] r = "STAFF_PUERTA" ->
               <<"getEventos", "getInscritos", "getAforo", "getEstadisticas",
                 "buscarRegistro", "mapaSalaEvento", "confirmarAsistencia">>
          [] r = "COORDINADOR" ->
               <<"getEventos", "getInscritos", "getAforo", "getEstadisticas",
                 "buscarRegistro", "mapaSalaEvento", "confirmarAsistencia",
                 "estadisticasDetalladas">>]

Range(list) == {list[i] : i \in DOMAIN list}

\* Bearer credentials a caller may present: the decoded payload, whether the
\* signature verifies and whether exp has passed. "permissions" is a claim a
\* credential may carry; create_access_token writes none.
Tokens ==
    [signature : {"valid", "invalid"}, expired : BOOLEAN,
     sub : {"u1", None}, username : {"ana", None},
     role : Roles \cup {"ADMIN", None},
     permissions : {<<>>, <<"confirmarAsistencia">>}]

NoUser == [user_id |-> None, username |-> None, role |-> None, permissions |-> <<>>]

\* A credential's permissions taken from the credential itself.
PermissionsOfUserFromToken(tok, table) == tok.permissions

\* permissions = ROLE_PERMISSIONS.get(role, [])
PermissionsOfUser(tok, table) ==
    IF tok.role \in DOMAIN table THEN table[tok.role] ELSE <<>>

\* verify_token: the MCPUser ("user"), None ("none"), or an exception that
\* leaves the function ("raise"). jwt.decode checks the signature, then exp.
\* ExpiredSignatureError is caught; for any other error of jwt.decode the
\* second clause evaluates jwt.JWTError, a name PyJWT does not define, and
\* that AttributeError leaves the function, as does the ValueError of
\* UserRole(role_str) for a role outside the enumeration.
VerifyToken(tok, table) ==
    IF tok.signature # "valid" THEN [kind |-> "raise", user |-> NoUser]
    ELSE IF tok.expired THEN [kind |-> "none", user |-> NoUser]
    ELSE IF tok.sub = None \/ tok.username = None \/ tok.role = None
    THEN [kind |-> "none", user |-> NoUser]
    ELSE IF tok.role \notin Roles THEN [kind |-> "raise", user |-> NoUser]
    ELSE [kind |-> "user",
          user |-> [user_id |-> tok.sub, username |-> tok.username,
                    role |-> tok.role,
                    permissions |-> PermissionsOfUser(tok, table)]]

\* get_current_user followed by permission_checker: the status the
\* dependency ends with (200: the user is handed to the handler), and the
\* user. An exception leaving verify_token reaches global_exception_handler.
CheckPermission(tok, required_permission, table) ==
    LET v == VerifyToken(tok, table) IN
    IF v.kind = "raise" THEN [status |-> 500, user |-> NoUser]
    ELSE IF v.kind = "none" THEN [status |-> 401, user |-> NoUser]
    ELSE IF required_permission \notin Range(v.user.permissions)
    THEN [status |-> 403, user |-> v.user]
    ELSE [status |-> 200, user |-> v.user]

NoAuthResult == [status |-> 0]

\* permission_checker that adds the required permission to the user's list,
\* which is the role's list of ROLE_PERMISSIONS itself.
PermissionCheckerGrants(tok, tool) ==
    /\ authResult' = [CheckPermission(tok, tool, rolePermissions) EXCEPT !.status = 200]
                        @@ [tool |-> tool, token |-> tok]
    /\ rolePermissions' =
         IF tok.role \in Roles /\ tool \notin Range(rolePermissions[tok.role])
         THEN [rolePermissions EXCEPT ![tok.role] = Append(@, tool)]
         ELSE rolePermissions
    /\ UNCHANGED <<asistVars, rateVars, cacheVars, statsVars, gatewayVars, codecVars, rateCallVars, estadoVars>>

\* The dependency require_permission(tool) of the endpoint of a tool,
\* resolved for a request carrying tok.
PermissionChecker(tok, tool) ==
    /\ authResult' = CheckPermission(tok, tool, rolePermissions)
                        @@ [tool |-> tool, token |-> tok]
    /\ UNCHANGED rolePermissions
    /\ UNCHANGED <<asistVars, rateVars, cacheVars, statsVars, gatewayVars, codecVars, rateCallVars, estadoVars>>

InitAuth ==
    /\ rolePermissions = ROLE_PERMISSIONS
    /\ authResult = NoAuthResult

\* ----------------------------------------------------------- rate limiter
\* settings.rate_limit_reads_per_second / rate_limit_writes_per_second
rate_limit_reads_per_second == 10
rate_limit_writes_per_second == 3
\* The window check_rate_limit passes to is_allowed.
RateWindow == 60

\* Amounts by which the clock advances between two events.
TickSteps == {1, 59}

\* Principals and tools whose admission is followed: a read tool and the
\* write tool.
RateUsers == {"u1", "u2"}
RateTools == {"getEventos", "confirmarAsistencia", "getAforo", "getEstadisticas"}

\* A key that names the tool and not the principal.
RateKeyOfTool(user_id, tool_name) == <<"u1", ":", tool_name>>

\* rate_key = f"{user.user_id}:{tool_name}"
RateKey(user_id, tool_name) == <<user_id, ":", tool_name>>
RateKeys == {RateKey(u, t) : u \in RateUsers, t \in RateTools}

\* The limit check_rate_limit selects for a tool.
LimitOf(tool_name) ==
    IF tool_name \in {"confirmarAsistencia"}
    THEN rate_limit_writes_per_second
    ELSE rate_limit_reads_per_second

\* The pruning of is_allowed that also keeps a timestamp exactly one window old.
CleanOldKeepsBoundary(list, t, window) ==
    SelectSeq(list, LAMBDA req_time : t - req_time <= window)

\* An is_allowed that never forgets a request.
CleanOldNothing(list, t, window) == list

\* [req_time for req_time in self.requests[key] if now - req_time < window]
CleanOld(list, t, window) ==
    SelectSeq(list, LAMBDA req_time : t - req_time < window)

\* An is_allowed that refuses only above the limit.
IsAllowedAboveLimit(list, limit, window, t) ==
    LET kept == CleanOld(list, t, window) IN
    IF Len(kept) > limit
    THEN [allowed |-> FALSE, list |-> kept]
    ELSE [allowed |-> TRUE, list |-> Append(kept, t)]

\* An is_allowed that records the request before it looks at the count.
IsAllowedRecordsFirst(list, limit, window, t) ==
    LET kept == CleanOld(list, t, window) IN
    IF Len(kept) >= limit
    THEN [allowed |-> FALSE, list |-> Append(kept, t)]
    ELSE [allowed |-> TRUE, list |-> Append(kept, t)]

\* RateLimiter.is_allowed on the list of one key at time t: the answer and
\* the list the key holds afterwards.
IsAllowed(list, limit, window, t) ==
    LET kept == CleanOld(list, t, window) IN
    IF Len(kept) >= limit
    THEN [allowed |-> FALSE, list |-> kept]
    ELSE [allowed |-> TRUE, list |-> Append(kept, t)]

NoRateResult == [status |-> 0]

\* check_rate_limit(request, user, tool_name): 429 when is_allowed refuses.
CheckRateLimit(user_id, tool_name) ==
    LET key == RateKey(user_id, tool_name)
        r == IsAllowed(requests[key], LimitOf(tool_name), RateWindow, now)
    IN
    /\ requests' = [requests EXCEPT ![key] = r.list]
    /\ rateResult' = [status |-> IF r.allowed THEN 200 ELSE 429, user |-> user_id,
                      key |-> key, tool |-> tool_name, at |-> now]
    /\ admitted' = IF r.allowed THEN [admitted EXCEPT ![key] = Append(@, now)]
                   ELSE admitted
    /\ UNCHANGED <<now, ticks>>
    /\ UNCHANGED <<asistVars, authVars, cacheVars, statsVars, gatewayVars, codecVars, rateCallVars, estadoVars>>

\* Redis drops an entry when its lifetime has run out.
Expire(data, t) ==
    [k \in DOMAIN data |-> {e \in data[k] : t < e.expires}]

\* Time passes, and Redis expires what is due.
Tick(d) ==
    /\ ticks < MaxTicks
    /\ now' = now + d
    /\ ticks' = ticks + 1
    /\ UNCHANGED <<requests, admitted, rateResult>>
    /\ redisData' = Expire(redisData, now + d)
    /\ UNCHANGED <<redis, connected, backend, cacheResult>>
    /\ UNCHANGED <<asistVars, authVars, statsVars, gatewayVars, codecVars, rateCallVars, estadoVars>>

InitRate ==
    /\ now = 0
    /\ ticks = 0
    /\ requests = [k \in RateKeys |-> <<>>]
    /\ admitted = [k \in RateKeys |-> <<>>]
    /\ rateResult = NoRateResult

\* A request slot with no request.
IdleRateCall == [pc |-> "idle", window |-> <<>>]

\* self.requests[key] as is_allowed finds it when a request waited for its
\* turn with the list it had seen on arrival.
WindowAtArrival(p, key) == rateCalls[p].window

\* self.requests[key] as is_allowed reads it: the endpoint functions are
\* coroutines of one event loop and check_rate_limit has no await, so the
\* read, the count and the append run in one step of the loop.
WindowSeen(p, key) == requests[key]

\* A request to POST /getEventos of principal u1 is accepted by the server:
\* its dependencies are resolved and the endpoint function is scheduled.
\* The slot remembers the unexpired timestamps of the key at that moment.
RequestArrives(p) ==
    /\ rateCalls[p].pc = "idle"
    /\ rateCalls' = [rateCalls EXCEPT ![p] =
           [pc |-> "handler",
            window |-> CleanOld(requests[RateKey("u1", "getEventos")], now, RateWindow)]]
    /\ UNCHANGED rateVars
    /\ UNCHANGED <<asistVars, authVars, cacheVars, statsVars, gatewayVars, codecVars, estadoVars>>

\* get_eventos from its first line to its first await: check_rate_limit,
\* which raises the 429 or lets the function go on to the service.
HandlerRuns(p) ==
    LET key == RateKey("u1", "getEventos")
        r == IsAllowed(WindowSeen(p, key), LimitOf("getEventos"), RateWindow, now)
    IN
    /\ rateCalls[p].pc = "handler"
    /\ requests' = [requests EXCEPT ![key] = r.list]
    /\ rateResult' = [status |-> IF r.allowed THEN 200 ELSE 429, user |-> "u1",
                      key |-> key, tool |-> "getEventos", at |-> now]
    /\ admitted' = IF r.allowed THEN [admitted EXCEPT ![key] = Append(@, now)]
                   ELSE admitted
    /\ rateCalls' = [rateCalls EXCEPT ![p].pc = IF r.allowed THEN "service" ELSE "refused"]
    /\ UNCHANGED <<now, ticks>>
    /\ UNCHANGED <<asistVars, authVars, cacheVars, statsVars, gatewayVars, codecVars, estadoVars>>

\* The request ends: await EventosService.get_eventos(...) completes and the
\* result is returned, or the 429 is sent.
ResponseSent(p) ==
    /\ rateCalls[p].pc \in {"service", "refused"}
    /\ rateCalls' = [rateCalls EXCEPT ![p] = IdleRateCall]
    /\ UNCHANGED rateVars
    /\ UNCHANGED <<asistVars, authVars, cacheVars, statsVars, gatewayVars, codecVars, estadoVars>>

InitRateCalls == rateCalls = [p \in Sessions |-> IdleRateCall]

\* ------------------------------------------------------------------ cache
\* CACHE_TTL: seconds an entry of each tool lives; 0 means not cached.
CACHE_TTL ==
    [t \in {"mapaSalaEvento", "getAforo", "getEventos", "getInscritos",
            "getEstadisticas", "confirmarAsistencia", "buscarRegistro"} |->
        CASE t = "mapaSalaEvento" -> 60
          [] t = "getAforo" -> 60
          [] t = "getEventos" -> 300
          [] t = "getInscritos" -> 600
          [] t = "getEstadisticas" -> 300
          [] OTHER -> 0]

\* A lifetime table with a default: a tool without a positive lifetime gets
\* a minute.
TtlOfAtLeastMinute(tool_name) ==
    IF tool_name \in DOMAIN CACHE_TTL /\ CACHE_TTL[tool_name] # 0
    THEN CACHE_TTL[tool_name] ELSE 60

\* CACHE_TTL.get(tool_name, 0)
TtlOf(tool_name) ==
    IF tool_name \in DOMAIN CACHE_TTL THEN CACHE_TTL[tool_name] ELSE 0

\* The tools whose cache traffic is followed: a cached read tool, a tool
\* with lifetime 0 and a name that is not in CACHE_TTL.
CacheTools == {"getAforo", "buscarRegistro", "getSalas"}

\* Keyword arguments: a value with its type and the text str() gives it.
NoneParam == [type |-> "NoneType", text |-> <<"None">>]
IntParam == [type |-> "int", text |-> <<"1">>]

Param(name, value) == [name |-> name, value |-> value]

\* Keyword arguments of a call, in the order the caller wrote them.
ParamBags ==
    { <<Param("eventoId", IntParam)>>,
      <<Param("sala", NoneParam), Param("eventoId", IntParam)>> }

\* The parameter names in ascending order, as sorted() puts them.
SortedNames == <<"eventoId", "sala">>

\* The items without a None value, in the order the caller wrote them.
SortedParamsInsertionOrder(params) ==
    SelectSeq(params, LAMBDA p : p.value.type # "NoneType")

\* sorted(filtered_params.items()): the items without a None value, by name.
SortedParams(params) ==
    LET filtered == SelectSeq(params, LAMBDA p : p.value.type # "NoneType")
        names == SelectSeq(SortedNames,
                     LAMBDA n : \E i \in DOMAIN filtered : filtered[i].name = n)
    IN [j \in DOMAIN names |->
           CHOOSE p \in Range(filtered) : p.name = names[j]]

\* "&".join(f"{k}={v}" ...)
RECURSIVE JoinParams(_)
JoinParams(items) ==
    IF items = <<>> THEN <<>>
    ELSE LET head == <<items[1].name, "=">> \o items[1].value.text
         IN IF Len(items) = 1 THEN head
            ELSE head \o <<"&">> \o JoinParams(Tail(items))

\* get_cache_key: f"mcp:{tool_name}:{params_str}"
GetCacheKey(tool_name, params) ==
    <<"mcp", ":", tool_name, ":">> \o JoinParams(SortedParams(params))

CacheKeys == {GetCacheKey(t, b) : t \in CacheTools, b \in ParamBags}

\* A value as RedisCache sees it: its Python type (kind), the form of the
\* text that str() or json.dumps gives it (shape), its content (body) and,
\* for a dict or a list, the type and form of what it holds (of).
\* A number n.
IntValue(n) == [kind |-> "int", shape |-> "numeral", body |-> n, of |-> <<>>]

\* A string: the numeral of n ("123"), a JSON literal ("true", "false") or
\* a word that is not JSON ("hola").
StrValue(shape, n) == [kind |-> "str", shape |-> shape, body |-> n, of |-> <<>>]

\* A dict or a list holding one scalar value.
Container(kind, item) ==
    [kind |-> kind, shape |-> IF kind = "dict" THEN "object" ELSE "array",
     body |-> item.body, of |-> <<item.kind, item.shape>>]

\* AforoQueries.get_aforo_evento / GetAforoOutput: the capacity result, of
\* which the attendance count at the door is followed.
GetAforo(evento_id) ==
    [kind |-> "model", shape |-> "repr",
     body |-> Cardinality({a \in asistencias : a.evento_id = evento_id}),
     of |-> <<>>]

\* Values handed to the cache: capacity results as the handler builds them
\* (a pydantic object) or as a dict, for an attendance count of 0 or 1.
CacheValues ==
    {[kind |-> "model", shape |-> "repr", body |-> 0, of |-> <<>>],
     Container("dict", IntValue(1))}

\* RedisCache.set serialisation: json.dumps for a dict or a list, which
\* keeps the types of what they hold, str() for everything else, which
\* gives a number and the string of its numeral the same text.
Serialize(value) ==
    IF value.kind = "dict"
    THEN [shape |-> "object", body |-> value.body, of |-> value.of]
    ELSE IF value.kind = "list"
    THEN [shape |-> "array", body |-> value.body, of |-> value.of]
    ELSE [shape |-> CASE value.kind = "int" -> "numeral"
                      [] value.kind = "bool" -> "pyliteral"
                      [] value.kind = "model" -> "repr"
                      [] OTHER -> value.shape,
          body |-> value.body, of |-> <<>>]

\* RedisCache.get parsing: json.loads, and the raw text when it is not
\* JSON (JSONDecodeError). A numeral parses to a number and true/false to a
\* bool; str() of a bool ("True") or of a pydantic object
\* ("asistenciaEnPuerta=0 ...") is not JSON and comes back as that text.
Loads(text) ==
    CASE text.shape = "object" ->
            [kind |-> "dict", shape |-> "object", body |-> text.body, of |-> text.of]
      [] text.shape = "array" ->
            [kind |-> "list", shape |-> "array", body |-> text.body, of |-> text.of]
      [] text.shape = "numeral" -> IntValue(text.body)
      [] text.shape = "literal" ->
            [kind |-> "bool", shape |-> "pyliteral", body |-> text.body, of |-> <<>>]
      [] OTHER -> StrValue(text.shape, text.body)

\* The values, as they were handed to cache_set, of the live entry of a key.
CachedAt(key) == {e.source : e \in redisData[key]}

\* RedisCache.get without its except clause: a failure of the backend
\* propagates.
RedisGetUnguarded(key) ==
    IF ~connected THEN [value |-> {}, contacted |-> FALSE, raised |-> FALSE]
    ELSE IF backend = "down"
         THEN [value |-> {}, contacted |-> TRUE, raised |-> TRUE]
         ELSE [value |-> {Loads(e.text) : e \in redisData[key]},
               contacted |-> TRUE, raised |-> FALSE]

\* RedisCache.get: None when not connected and when the backend fails
\* (except Exception), the parsed text of the entry otherwise.
RedisGet(key) ==
    IF ~connected THEN [value |-> {}, contacted |-> FALSE, raised |-> FALSE]
    ELSE IF backend = "down"
         THEN [value |-> {}, contacted |-> TRUE, raised |-> FALSE]
         ELSE [value |-> {Loads(e.text) : e \in redisData[key]},
               contacted |-> TRUE, raised |-> FALSE]

\* RedisCache.set: False when not connected and when the backend fails,
\* setex(key, ttl_seconds, serialized_value) and True otherwise.
RedisSet(key, value, ttl_seconds) ==
    IF ~connected
    THEN [stored |-> FALSE, contacted |-> FALSE, raised |-> FALSE,
          data |-> redisData]
    ELSE IF backend = "down"
         THEN [stored |-> FALSE, contacted |-> TRUE, raised |-> FALSE,
               data |-> redisData]
         ELSE [stored |-> TRUE, contacted |-> TRUE, raised |-> FALSE,
               data |-> [redisData EXCEPT ![key] =
                   {[text |-> Serialize(value),
                     expires |-> now + ttl_seconds,
                     source |-> value]}]]

NoCacheResult ==
    [op |-> "none", tool |-> None, key |-> <<>>, value |-> {}, cached |-> {},
     stored |-> FALSE, contacted |-> FALSE, raised |-> FALSE,
     computed |-> FALSE, healthy |-> FALSE]

\* The outcome of an operation, with what the cache held for its key and
\* whether the backend was connected and answering when it ran.
CacheOutcome(op, tool_name, key, value, stored, contacted, raised, computed) ==
    [op |-> op, tool |-> tool_name, key |-> key, value |-> value,
     cached |-> CachedAt(key), stored |-> stored, contacted |-> contacted,
     raised |-> raised, computed |-> computed,
     healthy |-> connected /\ backend = "up"]

\* RedisCache.connect at start-up: from_url, then ping; any failure leaves
\* the cache not connected.
Connect ==
    /\ ~connected
    /\ \E from_url_ok \in BOOLEAN :
          IF from_url_ok
          THEN redis' = TRUE /\ connected' = (backend = "up")
          ELSE redis' = redis /\ connected' = FALSE
    /\ UNCHANGED <<backend, redisData, cacheResult>>
    /\ UNCHANGED <<asistVars, authVars, rateVars, statsVars, gatewayVars, codecVars, rateCallVars, estadoVars>>

\* RedisCache.disconnect at shutdown.
Disconnect ==
    /\ redis
    /\ connected' = FALSE
    /\ UNCHANGED <<redis, backend, redisData, cacheResult>>
    /\ UNCHANGED <<asistVars, authVars, rateVars, statsVars, gatewayVars, codecVars, rateCallVars, estadoVars>>

\* The Redis server stops answering, or answers again.
BackendChange ==
    /\ backend' = IF backend = "up" THEN "down" ELSE "up"
    /\ UNCHANGED <<redis, connected, redisData, cacheResult>>
    /\ UNCHANGED <<asistVars, authVars, rateVars, statsVars, gatewayVars, codecVars, rateCallVars, estadoVars>>

\* cache_get(tool_name, **params)
CacheGet(tool_name, params) ==
    LET key == GetCacheKey(tool_name, params) IN
    /\ IF TtlOf(tool_name) = 0
       THEN cacheResult' = CacheOutcome("get", tool_name, key, {},
                                        FALSE, FALSE, FALSE, FALSE)
       ELSE LET r == RedisGet(key) IN
            cacheResult' = CacheOutcome("get", tool_name, key, r.value,
                                        FALSE, r.contacted, r.raised, FALSE)
    /\ UNCHANGED <<redis, connected, backend, redisData>>
    /\ UNCHANGED <<asistVars, authVars, rateVars, statsVars, gatewayVars, codecVars, rateCallVars, estadoVars>>

\* cache_set(tool_name, value, **params)
CacheSet(tool_name, value, params) ==
    LET key == GetCacheKey(tool_name, params)
        ttl == TtlOf(tool_name)
    IN
    /\ IF ttl = 0
       THEN /\ cacheResult' = CacheOutcome("set", tool_name, key, {value},
                                           FALSE, FALSE, FALSE, FALSE)
            /\ redisData' = redisData
       ELSE LET r == RedisSet(key, value, ttl) IN
            /\ cacheResult' = CacheOutcome("set", tool_name, key, {value},
                                           r.stored, r.contacted, r.raised,
                                           FALSE)
            /\ redisData' = r.data
    /\ UNCHANGED <<redis, connected, backend>>
    /\ UNCHANGED <<asistVars, authVars, rateVars, statsVars, gatewayVars, codecVars, rateCallVars, estadoVars>>

\* The getAforo handler for an authorised, admitted call: the service
\* queries the store and the result is returned; the cache is neither read
\* nor written.
GetAforoHandler(params) ==
    /\ cacheResult' = CacheOutcome("call", "getAforo",
                                   GetCacheKey("getAforo", params),
                                   {GetAforo(1)}, FALSE, FALSE, FALSE, TRUE)
    /\ UNCHANGED <<redis, connected, backend, redisData>>
    /\ UNCHANGED <<asistVars, authVars, rateVars, statsVars, gatewayVars, codecVars, rateCallVars, estadoVars>>

InitCache ==
    /\ redis = FALSE
    /\ connected = FALSE
    /\ backend = "up"
    /\ redisData = [k \in CacheKeys |-> {}]
    /\ cacheResult = NoCacheResult

\* ---------------------------------------------------- cache: the helpers
\* The result values in scope: numbers, strings, and the dicts and lists
\* holding one of them.
ScalarValues ==
    {IntValue(n) : n \in 0..MaxNumber}
    \cup {StrValue("numeral", n) : n \in 0..MaxNumber}
    \cup {StrValue("literal", b) : b \in {0, 1}}
    \cup {StrValue("word", 0)}

ScopeValues ==
    ScalarValues \cup {Container(k, item) : k \in {"dict", "list"}, item \in ScalarValues}

NoRoundTrip == [done |-> FALSE, value |-> IntValue(0), got |-> IntValue(0)]

\* RedisCache.set(key, value) followed by RedisCache.get(key) on a connected
\* cache whose server answers, before the entry expires.
SetThenGet(value) ==
    /\ roundTrip' = [done |-> TRUE, value |-> value, got |-> Loads(Serialize(value))]
    /\ UNCHANGED keyResult
    /\ UNCHANGED <<asistVars, authVars, rateVars, cacheVars, statsVars, gatewayVars, rateCallVars, estadoVars>>

\* Keyword arguments that carry a string: a room name, the numeral 1, and a
\* text with the characters that separate the items of a key.
StrParam == [type |-> "str", text |-> <<"A">>]
StrOneParam == [type |-> "str", text |-> <<"1">>]
StrJoinedParam == [type |-> "str", text |-> <<"1", "&", "sala", "=", "A">>]

\* The keyword arguments a call can carry: an event, as a number or as a
\* string, and a room name, either of which may be None.
KeyParams ==
    {Param("eventoId", v) : v \in {IntParam, StrOneParam, StrJoinedParam, NoneParam}}
    \cup {Param("sala", v) : v \in {StrParam, NoneParam}}

\* The calls' **params: up to two keyword arguments of different names, in
\* the order the caller wrote them.
KeyBags ==
    {<<>>} \cup {<<p>> : p \in KeyParams}
    \cup {b \in {<<p, q>> : p \in KeyParams, q \in KeyParams} : b[1].name # b[2].name}

NoKeyResult ==
    [done |-> FALSE, tool |-> None, first |-> <<>>, second |-> <<>>,
     first_key |-> <<>>, second_key |-> <<>>]

\* get_cache_key called for two requests to one tool.
GetCacheKeys(tool_name, first, second) ==
    /\ keyResult' = [done |-> TRUE, tool |-> tool_name,
                     first |-> first, second |-> second,
                     first_key |-> GetCacheKey(tool_name, first),
                     second_key |-> GetCacheKey(tool_name, second)]
    /\ UNCHANGED roundTrip
    /\ UNCHANGED <<asistVars, authVars, rateVars, cacheVars, statsVars, gatewayVars, rateCallVars, estadoVars>>

InitCodec ==
    /\ roundTrip = NoRoundTrip
    /\ keyResult = NoKeyResult

\* ------------------------------------------------------------- statistics
\* validate_kpis: the KPI names the input schema accepts.
valid_kpis ==
    {"inscritos", "confirmados", "tasaAsistencia", "noShow",
     "leadsPorFuente", "eventosMasPopulares"}

\* Requested KPI lists: one or two names, a name outside valid_kpis included.
KpiLists ==
    LET names == valid_kpis \cup {"otroKpi"}
    IN {<<a>> : a \in names} \cup {<<a, b>> : a \in names, b \in names}

\* rango as the caller sends it: both dates well formed, a date that is not
\* %Y-%m-%d, or an object without 'fin'.
Rangos == {"valid", "malformed", "incomplete"}

StatsInputs == [rango : Rangos, kpis : KpiLists]

\* The registrations in range: (empresa of the registrant, event) pairs.
Empresas == {"Acme", "Zeta"}
StatEventos == {1, 2}
RegistroEventosRows == Empresas \X StatEventos

\* A snapshot of the store as the queries of one call see it, with the
\* order in which it returns groups of equal count (ORDER BY count only),
\* and whether its queries fail.
StatsStores ==
    [registros : SUBSET RegistroEventosRows,
     asistieron : 0..MaxAsistieron,
     empresaOrder : {<<"Acme", "Zeta">>, <<"Zeta", "Acme">>},
     eventoOrder : {<<1, 2>>, <<2, 1>>},
     failing : BOOLEAN]

\* GetEstadisticasInput: validate_rango and validate_kpis.
ValidInput(input) ==
    /\ input.rango # "incomplete"
    /\ \A i \in DOMAIN input.kpis : input.kpis[i] \in valid_kpis

\* Model.join(Other) on a declarative class: the class has no attribute
\* join (db/queries.py joins through Model.__table__), so building the
\* statement raises AttributeError before any query is sent.
DeclarativeJoin == "AttributeError"

KpiInfo(nombre, valor, detalle) ==
    [nombre |-> nombre, valor |-> valor, detalle |-> detalle]

\* The outcome of one _kpi_ function: the KpiInfo it returns, or that it
\* raised, and the number of queries it sent to the store.
KpiReturned(kpi, queries) == [raised |-> FALSE, kpi |-> {kpi}, queries |-> queries]
KpiRaised(queries) == [raised |-> TRUE, kpi |-> {}, queries |-> queries]

\* round(x, 2) of n/d, in hundredths.
Round2(n, d) ==
    LET q == (n * 100) \div d
        r == (n * 100) % d
    IN IF 2 * r < d THEN q
       ELSE IF 2 * r > d THEN q + 1
       ELSE IF q % 2 = 0 THEN q ELSE q + 1

\* _kpi_inscritos
KpiInscritos(db, alias) ==
    IF DeclarativeJoin = "AttributeError" THEN KpiRaised(0)
    ELSE IF db.failing THEN KpiRaised(1)
    ELSE KpiReturned(KpiInfo(alias, Cardinality(db.registros), <<>>), 1)

\* _kpi_tasa_asistencia: valor in hundredths of a percent point.
KpiTasaAsistencia(db) ==
    IF DeclarativeJoin = "AttributeError" THEN KpiRaised(0)
    ELSE IF db.failing THEN KpiRaised(1)
    ELSE LET total_inscritos == Cardinality(db.registros)
             total_asistieron == db.asistieron
             tasa == IF total_inscritos > 0
                     THEN Round2(total_asistieron * 100, total_inscritos)
                     ELSE 0
         IN KpiReturned(KpiInfo("tasaAsistencia", tasa,
                                <<total_inscritos, total_asistieron>>), 2)

\* _kpi_no_show
KpiNoShow(db) ==
    LET tasa_kpi == KpiTasaAsistencia(db) IN
    IF tasa_kpi.raised THEN tasa_kpi
    ELSE LET d == (CHOOSE k \in tasa_kpi.kpi : TRUE).detalle
         IN KpiReturned(KpiInfo("noShow", d[1] - d[2], d), tasa_kpi.queries)

\* ORDER BY count DESC LIMIT 10 over groups: the groups with rows, by count
\* descending, groups of equal count in the order the store returns them.
RECURSIVE OrderByCountDesc(_, _, _)
OrderByCountDesc(order, count, c) ==
    IF c = 0 THEN <<>>
    ELSE SelectSeq(order, LAMBDA g : count[g] = c)
         \o OrderByCountDesc(order, count, c - 1)

Limit10(rows) == SubSeq(rows, 1, IF Len(rows) < 10 THEN Len(rows) ELSE 10)

RECURSIVE SumTotals(_, _)
SumTotals(rows, count) ==
    IF rows = <<>> THEN 0 ELSE count[rows[1]] + SumTotals(Tail(rows), count)

\* _kpi_leads_por_fuente: valor is the sum over the returned rows.
KpiLeadsPorFuente(db) ==
    IF DeclarativeJoin = "AttributeError" THEN KpiRaised(0)
    ELSE IF db.failing THEN KpiRaised(1)
    ELSE LET count == [e \in Empresas |->
                          Cardinality({r \in db.registros : r[1] = e})]
             rows == Limit10(OrderByCountDesc(db.empresaOrder, count,
                                              Cardinality(db.registros)))
         IN KpiReturned(KpiInfo("leadsPorFuente", SumTotals(rows, count),
                                [i \in DOMAIN rows |-> <<rows[i], count[rows[i]]>>]), 1)

\* _kpi_eventos_populares: valor is the number of returned rows.
KpiEventosPopulares(db) ==
    IF DeclarativeJoin = "AttributeError" THEN KpiRaised(0)
    ELSE IF db.failing THEN KpiRaised(1)
    ELSE LET count == [e \in StatEventos |->
                          Cardinality({r \in db.registros : r[2] = e})]
             rows == Limit10(OrderByCountDesc(db.eventoOrder, count,
                                              Cardinality(db.registros)))
         IN KpiReturned(KpiInfo("eventosMasPopulares", Len(rows),
                                [i \in DOMAIN rows |-> <<rows[i], count[rows[i]]>>]), 1)

\* _calculate_kpi: the KPI, or None when its computation raised
\* (except Exception) or the name is unknown.
CalculateKpi(db, kpi_name) ==
    LET r == CASE kpi_name = "inscritos" -> KpiInscritos(db, "inscritos")
               [] kpi_name = "confirmados" -> KpiInscritos(db, "confirmados")
               [] kpi_name = "tasaAsistencia" -> KpiTasaAsistencia(db)
               [] kpi_name = "noShow" -> KpiNoShow(db)
               [] kpi_name = "leadsPorFuente" -> KpiLeadsPorFuente(db)
               [] kpi_name = "eventosMasPopulares" -> KpiEventosPopulares(db)
               [] OTHER -> KpiReturned(KpiInfo(None, 0, <<>>), 0)
    IN IF kpi_name \notin valid_kpis THEN [kpi |-> <<>>, queries |-> 0]
       ELSE IF r.raised THEN [kpi |-> <<>>, queries |-> r.queries]
       ELSE [kpi |-> <<CHOOSE k \in r.kpi : TRUE>>, queries |-> r.queries]

\* The loop of get_estadisticas over input_data.kpis.
RECURSIVE CalculateAll(_, _)
CalculateAll(db, names) ==
    IF names = <<>> THEN [kpis |-> <<>>, queries |-> 0]
    ELSE LET first == CalculateKpi(db, names[1])
             rest == CalculateAll(db, Tail(names))
         IN [kpis |-> first.kpi \o rest.kpis,
             queries |-> first.queries + rest.queries]

\* EstadisticasService.get_estadisticas behind the get_estadisticas
\* handler: strptime of both dates first (a ValueError is re-raised and the
\* handler answers 500), then the loop; 422 when the schema rejects the input.
EstadisticasResponse(input, db) ==
    IF ~ValidInput(input)
    THEN [status |-> 422, kpis |-> <<>>, queries |-> 0]
    ELSE IF input.rango = "malformed"
    THEN [status |-> 500, kpis |-> <<>>, queries |-> 0]
    ELSE LET r == CalculateAll(db, input.kpis)
         IN [status |-> 200, kpis |-> r.kpis, queries |-> r.queries]

NoStatsResult == [status |-> 0]

\* One getEstadisticas call of an authorised, admitted caller. Its outcome
\* depends on its input and on the store alone, so one call is followed.
GetEstadisticas(input, db) ==
    LET r == EstadisticasResponse(input, db) IN
    /\ statsResult' = [status |-> r.status, kpis |-> r.kpis,
                       queries |-> r.queries, input |-> input, db |-> db]
    /\ UNCHANGED <<asistVars, authVars, rateVars, cacheVars, gatewayVars, codecVars, rateCallVars, estadoVars>>

InitStats == statsResult = NoStatsResult

\* ---------------------------------------------------------------- gateway
\* Credentials a request may carry: in order, well formed for each of two
\* roles, a bad signature, expired, a role outside UserRole, no subject.
GatewayTokens ==
    LET ok == [signature |-> "valid", expired |-> FALSE, sub |-> "u1",
               username |-> "ana", role |-> "LECTOR", permissions |-> <<>>]
    IN {ok,
        [ok EXCEPT !.role = "STAFF_PUERTA"],
        [ok EXCEPT !.signature = "invalid"],
        [ok EXCEPT !.expired = TRUE],
        [ok EXCEPT !.role = "ADMIN"],
        [ok EXCEPT !.sub = None]}

\* The endpoints followed: a read tool with a 404 branch, the write tool and
\* the statistics tool.
GatewayTools == {"getAforo", "confirmarAsistencia", "getEstadisticas"}

\* A request body: whether it passes the tool's input schema and, for
\* getEstadisticas, whether the dates of rango are %Y-%m-%d.
Bodies ==
    {[valid |-> TRUE, rango |-> "valid"], [valid |-> TRUE, rango |-> "malformed"],
     [valid |-> FALSE, rango |-> "valid"]}

\* What the store does with the queries of a call: answers, has no such
\* event or registration, or fails.
StoreAnswers == {"ok", "missing", "fails"}

\* The getEstadisticas input and the store snapshot of a request.
StatsInputOf(body) ==
    [rango |-> IF body.valid THEN body.rango ELSE "incomplete",
     kpis |-> <<"inscritos">>]

StatsStoreOf(answer) ==
    [registros |-> {}, asistieron |-> 0,
     empresaOrder |-> <<"Acme", "Zeta">>, eventoOrder |-> <<1, 2>>,
     failing |-> answer = "fails"]

\* The body of the endpoint function after check_rate_limit: the status it
\* ends with and the number of store queries it sent.
HandlerOutcome(tool, body, answer) ==
    CASE tool = "getEstadisticas" ->
            LET r == EstadisticasResponse(StatsInputOf(body), StatsStoreOf(answer))
            IN [status |-> r.status, queries |-> r.queries]
      [] tool = "getAforo" ->
            [status |-> CASE answer = "ok" -> 200
                          [] answer = "missing" -> 404
                          [] OTHER -> 500,
             queries |-> 1]
      [] OTHER ->
            \* confirmar_asistencia: select, then insert or update; a missing
            \* registration or event is not looked for
            [status |-> CASE answer = "ok" -> 200
                          [] answer = "missing" -> IF fkEnforced THEN 500 ELSE 200
                          [] OTHER -> 500,
             queries |-> IF answer = "fails" THEN 1 ELSE 2]

\* The response a client receives. origin tells who built it:
\* global_exception_handler, get_current_user, permission_checker, the
\* request validation of the framework, check_rate_limit or the endpoint
\* function. error is the machine-readable code of the body, if any;
\* logging_middleware sets the X-Trace-ID header on every response it sees.
\* queries and cache_ops count the store queries and cache operations made
\* for the request; invalid_input tells whether the body of a request that
\* passed the dependencies was malformed.
ResponseOf(status, origin, queries, invalid_input) ==
    [status |-> status,
     origin |-> origin,
     error |-> CASE origin = "global" -> {"INTERNAL_ERROR"}
                 [] origin = "handler" /\ status = 404 -> {"NOT_FOUND"}
                 [] origin = "handler" /\ status = 500 -> {"INTERNAL_ERROR"}
                 [] OTHER -> {},
     message |-> status # 200,
     trace_body |-> origin = "global" \/ (origin = "handler" /\ status # 200),
     trace_header |-> TRUE,
     queries |-> queries,
     cache_ops |-> 0,
     invalid_input |-> invalid_input]

NoResponseYet ==
    [status |-> 0, origin |-> "none", error |-> {}, message |-> FALSE,
     trace_body |-> FALSE, trace_header |-> FALSE, queries |-> 0,
     cache_ops |-> 0, invalid_input |-> FALSE]

\* An endpoint whose limiter runs as soon as the principal is known.
PrincipalKnown(auth, body) == auth.user # NoUser

\* Whether the endpoint function of a tool is called: FastAPI resolves the
\* dependencies (require_permission) and validates the body first, and
\* check_rate_limit is a statement of the function.
ReachesHandler(auth, body) == auth.status = 200 /\ body.valid

\* One request to the endpoint of a tool: the dependencies (get_current_user
\* and permission_checker), the validation of the body, check_rate_limit,
\* then the endpoint's work on the store.
ToolCall(tok, tool, body, answer) ==
    LET auth == CheckPermission(tok, tool, rolePermissions)
        key == RateKey(auth.user.user_id, tool)
        bad == ~body.valid \/ (tool = "getEstadisticas" /\ body.rango = "malformed")
        r == IsAllowed(requests[key], LimitOf(tool), RateWindow, now)
        h == HandlerOutcome(tool, body, answer)
    IN
    /\ IF ReachesHandler(auth, body)
       THEN /\ requests' = [requests EXCEPT ![key] = r.list]
            /\ admitted' = IF r.allowed
                           THEN [admitted EXCEPT ![key] = Append(@, now)]
                           ELSE admitted
            /\ rateResult' = [status |-> IF r.allowed THEN 200 ELSE 429,
                              user |-> auth.user.user_id,
                              key |-> key, tool |-> tool, at |-> now]
       ELSE UNCHANGED <<requests, admitted, rateResult>>
    /\ response' =
         IF auth.status # 200
         THEN ResponseOf(auth.status,
                         CASE auth.status = 500 -> "global"
                           [] auth.status = 401 -> "auth"
                           [] OTHER -> "permission", 0, FALSE)
         ELSE IF ~body.valid THEN ResponseOf(422, "validation", 0, bad)
         ELSE IF r.allowed THEN ResponseOf(h.status, "handler", h.queries, bad)
         ELSE ResponseOf(429, "rate", 0, bad)
    /\ UNCHANGED <<now, ticks>>
    /\ UNCHANGED <<asistVars, authVars, cacheVars, statsVars, codecVars, rateCallVars, estadoVars>>

InitGateway == response = NoResponseYet

\* ---------------------------------------------------------- specifications
Init ==
    /\ InitAsist /\ InitAuth /\ InitRate /\ InitCache /\ InitStats /\ InitGateway
    /\ InitCodec /\ InitRateCalls /\ InitEstado

NextAsist ==
    \/ \E p \in Sessions, inp \in AsistInputs : SelectExisting(p, inp)
    \/ \E p \in Sessions : CommitAsistencia(p)

\* Concurrent confirmarAsistencia calls on the store.
SpecAsist == Init /\ [][NextAsist]_vars

\* confirmarAsistencia calls one after another: a call starts only when no
\* other call is running.
NextAsistSeq ==
    \/ \E p \in Sessions, inp \in AsistInputs :
          /\ \A q \in Sessions : calls[q].pc = "idle"
          /\ SelectExisting(p, inp)
    \/ \E p \in Sessions : CommitAsistencia(p)

SpecAsistSeq == Init /\ [][NextAsistSeq]_vars

\* Requests passing authentication and the permission check.
NextAuth == \E tok \in Tokens, tool \in ToolNames : PermissionChecker(tok, tool)

SpecAuth == Init /\ [][NextAuth]_vars

\* Calls of confirmarAsistencia one after another, each made under two
\* estados.
NextEstado ==
    \E p \in Sessions, inp \in AsistInputs, other \in Estados :
        ConfirmWithEstados(p, inp, other)

SpecEstado == Init /\ [][NextEstado]_vars

\* Admission checks of one principal's calls of a read tool while time
\* passes.
NextRate ==
    \/ CheckRateLimit("u1", "getEventos")
    \/ \E d \in TickSteps : Tick(d)

SpecRate == Init /\ [][NextRate]_vars

\* The same for the write tool.
NextRateWrite ==
    \/ CheckRateLimit("u1", "confirmarAsistencia")
    \/ \E d \in TickSteps : Tick(d)

SpecRateWrite == Init /\ [][NextRateWrite]_vars

\* Admission checks of two principals' calls of the write tool and of a read
\* tool, at one instant of the clock.
NextRateKeys ==
    \E u \in RateUsers, t \in {"confirmarAsistencia", "getAforo"} : CheckRateLimit(u, t)

SpecRateKeys == Init /\ [][NextRateKeys]_vars

\* Requests of one principal to a read endpoint, two in flight at once, at
\* one instant of the clock.
NextRateConcurrent ==
    \/ \E p \in Sessions : RequestArrives(p)
    \/ \E p \in Sessions : HandlerRuns(p)
    \/ \E p \in Sessions : ResponseSent(p)

SpecRateConcurrent == Init /\ [][NextRateConcurrent]_vars

\* The cache from start-up to shutdown: reads and writes through cache_get
\* and cache_set, calls of the capacity tool, a backend that comes and
\* goes, and time passing.
NextCache ==
    \/ Connect
    \/ Disconnect
    \/ BackendChange
    \/ \E t \in CacheTools, b \in ParamBags : CacheGet(t, b)
    \/ \E t \in CacheTools, v \in CacheValues, b \in ParamBags :
          CacheSet(t, v, b)
    \/ \E b \in ParamBags : GetAforoHandler(b)
    \/ \E d \in TickSteps : Tick(d)

SpecCache == Init /\ [][NextCache]_vars

\* getEstadisticas calls over every store snapshot.
NextStats ==
    /\ statsResult = NoStatsResult
    /\ \E input \in StatsInputs, db \in StatsStores : GetEstadisticas(input, db)

SpecStats == Init /\ [][NextStats]_vars

\* Requests to the tool endpoints, with any credential, body and store.
NextGateway ==
    \E tok \in GatewayTokens, tool \in GatewayTools, body \in Bodies,
       answer \in StoreAnswers : ToolCall(tok, tool, body, answer)

SpecGateway == Init /\ [][NextGateway]_vars

\* The cache helpers applied once each to a value and to the keyword
\* arguments of two calls.
NextCodec ==
    \/ /\ ~roundTrip.done
       /\ \E value \in ScopeValues : SetThenGet(value)
    \/ /\ ~keyResult.done
       /\ \E first \in KeyBags, second \in KeyBags : GetCacheKeys("getAforo", first, second)

SpecCodec == Init /\ [][NextCodec]_vars

\* ------------------------------------------------- attendance: properties
Answered == lastResponse.status # 0
LastRows == ExistingRows(lastResponse.registroId, lastResponse.eventoId)
LastCreated == lastResponse.status = 200 /\ ~lastResponse.found

\* C1: under any interleaving of concurrent confirmAttendance calls the
\* store never holds more than one attendance record for the same
\* (registrationId, eventId) pair.
C1_AtMostOneRecordPerPair ==
    \A r \in RegIds, e \in EvtIds : Cardinality(ExistingRows(r, e)) <= 1

\* C2: when confirmAttendance calls run one after another, the store never
\* holds two records for a pair, a call for an existing registration and
\* event is answered 200, and after every call answered 200 the store holds
\* exactly one record for the call's pair, whose verifier is the verifier of
\* that (the last) call.
C2_SequentialCallsConverge ==
    /\ C1_AtMostOneRecordPerPair
    /\ Answered =>
         /\ ForeignKeysHold(lastResponse.registroId, lastResponse.eventoId)
               => lastResponse.status = 200
         /\ lastResponse.status = 200 =>
               /\ Cardinality(LastRows) = 1
               /\ \A a \in LastRows : a.asesor_verificador = lastResponse.asesor

\* Two calls with different verifiers were answered for one pair: the record
\* carries the client address of ana's call and luis is the last verifier.
C2_Witness ==
    /\ lastResponse.status = 200
    /\ lastResponse.asesor = "luis"
    /\ lastResponse.found
    /\ \E a \in LastRows :
         /\ a.ip_verificacion = ClientIp("s1")
         /\ a.asesor_verificador = "luis"
         /\ a.fecha_ingreso >= 2

\* C3: a call for a key without attendance record whose registration or
\* event does not exist is answered NotFound (404) and creates no record; a
\* record is created only when both exist.
C3_NotFoundWhenMissing ==
    (Answered /\ ~lastResponse.found
       /\ ~ForeignKeysHold(lastResponse.registroId, lastResponse.eventoId))
    => (lastResponse.status = 404 /\ ~LastCreated)

\* C20: a call for an existing registration and event whose existence check
\* found no record, also one that lost the race against a concurrent first
\* confirmation of the same pair, is answered 200 and leaves the pair with
\* a single record, which carries the call's verifier: the loser was applied
\* as an update of the record the winner created.
C20_LostCreateFoldedIntoUpdate ==
    (Answered /\ ~lastResponse.found
       /\ ForeignKeysHold(lastResponse.registroId, lastResponse.eventoId))
    => /\ lastResponse.status = 200
       /\ Cardinality(LastRows) = 1
       /\ \A a \in LastRows : a.asesor_verificador = lastResponse.asesor

\* C24: a call answered on the update path changes one record of its pair
\* and leaves every other record as it was, creating and deleting none:
\* the changed record keeps its id, registration id, event id and scanned
\* code; its note is the call's note when the call sent one and the stored
\* note otherwise, and likewise its client address.
C24_UpdateChangesOnlyItsFields ==
    [][(answered' = answered + 1 /\ lastResponse'.status = 200 /\ lastResponse'.found)
       => LET c == calls[lastResponse'.session] IN
          /\ Cardinality(asistencias') = Cardinality(asistencias)
          /\ \E t \in ExistingRows(c.registroId, c.eventoId) :
                /\ asistencias \ {t} \subseteq asistencias'
                /\ \E b \in asistencias' :
                      /\ b.id = t.id
                      /\ b.registro_id = t.registro_id
                      /\ b.evento_id = t.evento_id
                      /\ b.qr_escaneado = t.qr_escaneado
                      /\ b.notas = IF c.observacion # None THEN c.observacion ELSE t.notas
                      /\ b.ip_verificacion = IF c.ip # None THEN c.ip ELSE t.ip_verificacion]_vars

\* luis, whose request carries no client address, confirmed without a note
\* a pair that ana had confirmed with one: the record keeps ana's note and
\* address and has luis as verifier.
C24_Witness ==
    /\ lastResponse.status = 200
    /\ lastResponse.found
    /\ lastResponse.session = "s2"
    /\ Cardinality(LastRows) = 1
    /\ \A a \in LastRows :
         /\ a.notas = "nota"
         /\ a.ip_verificacion = ClientIp("s1")
         /\ a.asesor_verificador = "luis"
         /\ a.qr_escaneado = QrCode(a.registro_id)

\* C25: a call that starts while the store holds two or more records for
\* its pair does not get past the existence check: it is answered 500 in
\* that step and the store is unchanged; and a pair that has two or more
\* records keeps as many from then on.
C25_DuplicatesAnswered500 ==
    [][/\ \A p \in Sessions :
            (calls[p].pc = "idle" /\ calls'[p].pc = "commit")
            => Cardinality(ExistingRows(calls'[p].registroId, calls'[p].eventoId)) <= 1
       /\ \A p \in Sessions :
            (calls[p].pc = "idle" /\ answered' = answered + 1 /\ lastResponse'.session = p)
            => /\ lastResponse'.status = 500
               /\ asistencias' = asistencias
               /\ Cardinality(ExistingRows(lastResponse'.registroId,
                                            lastResponse'.eventoId)) >= 2
       /\ \A r \in RegIds, e \in EvtIds :
            Cardinality(ExistingRows(r, e)) >= 2
            => Cardinality({a \in asistencias' : a.registro_id = r /\ a.evento_id = e})
                  >= Cardinality(ExistingRows(r, e))]_vars

\* Two concurrent first confirmations left two records for the pair, and a
\* third call for it was answered 500.
C25_Witness ==
    /\ lastResponse.status = 500
    /\ lastResponse.found
    /\ answered = 3
    /\ Cardinality(LastRows) = 2
    /\ \A a \in LastRows : a.fecha_ingreso <= 2

\* C29: a confirmarAsistencia call made on the same store with two
\* different values of estado is answered with the same status and leaves
\* the same store.
C29_EstadoHasNoEffect ==
    estadoRuns.runs > 0 => estadoRuns.first_out = estadoRuns.second_out

\* The second call for a pair, made as PRESENTE and as AUSENTE: both are
\* answered 200 and both leave the one updated record.
C29_Witness ==
    /\ estadoRuns.runs = 2
    /\ estadoRuns.first = "PRESENTE"
    /\ estadoRuns.second = "AUSENTE"
    /\ estadoRuns.second_out.status = 200
    /\ Cardinality(estadoRuns.second_out.store) = 1
    /\ \A a \in estadoRuns.second_out.store : a.fecha_ingreso = 2

\* ------------------------------------------------------- RBAC: properties
\* The credential authenticates: the signature verifies, exp is ahead, and
\* it carries a subject, a display name and a role of the enumeration.
Authenticates(tok) ==
    /\ tok.signature = "valid" /\ ~tok.expired
    /\ tok.sub # None /\ tok.username # None /\ tok.role \in Roles

\* C4: a call of tool t by an authenticated principal of role r passes the
\* permission check iff t is in ROLE_PERMISSIONS[r] and is answered 403
\* otherwise; the permissions are those of the role table at the time of the
\* call, whatever the credential carries. A LECTOR calling
\* confirmarAsistencia is denied; STAFF_PUERTA and COORDINADOR are allowed.
C4_PermissionIffInRoleTable ==
    (authResult.status # 0 /\ Authenticates(authResult.token)) =>
        LET r == authResult.token.role
            t == authResult.tool
        IN
        /\ authResult.status = (IF t \in Range(ROLE_PERMISSIONS[r]) THEN 200 ELSE 403)
        /\ authResult.user.permissions = rolePermissions[r]
        /\ t = "confirmarAsistencia" =>
              authResult.status = (IF r = "LECTOR" THEN 403 ELSE 200)

\* A LECTOR whose credential carries the permission confirmarAsistencia has
\* called confirmarAsistencia and was denied.
C4_Witness ==
    /\ authResult.status = 403
    /\ authResult.tool = "confirmarAsistencia"
    /\ authResult.token.role = "LECTOR"
    /\ "confirmarAsistencia" \in Range(authResult.token.permissions)

\* C5: in every reachable state the role table is the one fixed at
\* start-up, and in it COORDINADOR's tools are a strict superset of
\* STAFF_PUERTA's, which are a strict superset of LECTOR's.
C5_RoleTableFixedAndNested ==
    /\ rolePermissions = ROLE_PERMISSIONS
    /\ Range(rolePermissions["LECTOR"]) \subseteq Range(rolePermissions["STAFF_PUERTA"])
    /\ Range(rolePermissions["LECTOR"]) # Range(rolePermissions["STAFF_PUERTA"])
    /\ Range(rolePermissions["STAFF_PUERTA"]) \subseteq Range(rolePermissions["COORDINADOR"])
    /\ Range(rolePermissions["STAFF_PUERTA"]) # Range(rolePermissions["COORDINADOR"])

\* Requests of every role have been answered, one of them denied.
C5_Witness ==
    /\ authResult.status = 403
    /\ authResult.user.role = "LECTOR"
    /\ rolePermissions["LECTOR"] = ROLE_PERMISSIONS["LECTOR"]

\* ----------------------------------------------- rate limiter: properties
\* The admitted requests of a key that lie in the window ending at time t.
AdmittedInWindow(k, t) ==
    Cardinality({i \in DOMAIN admitted[k] : t - admitted[k][i] < 60})

\* C6: with a limit of L requests per window of 60 (L = 10 for a read
\* tool), a request is rejected (429) only when L admitted requests of its
\* key lie in the window ending at it, so the first L requests of a window
\* are allowed and a request is allowed again once the admitted ones are 60
\* old; and a request is allowed only when, with it, at most L admitted
\* requests lie in that window, so the (L+1)-th is rejected.
C6_SlidingWindowAdmission ==
    rateResult.status # 0 =>
        LET L == IF rateResult.tool = "confirmarAsistencia" THEN 3 ELSE 10
            n == AdmittedInWindow(rateResult.key, rateResult.at)
        IN
        /\ rateResult.status \in {200, 429}
        /\ rateResult.status = 429 => n >= L
        /\ rateResult.status = 200 => n <= L

\* Ten requests were admitted in one window, ten more once 60 had passed,
\* and the eleventh of the second window was rejected.
C6_Witness ==
    /\ rateResult.status = 429
    /\ rateResult.tool = "getEventos"
    /\ rateResult.at >= 60
    /\ Len(admitted[rateResult.key]) = 20
    /\ admitted[rateResult.key][10] + 60 <= admitted[rateResult.key][11]

\* The limit configured for the tool class of a key: 3 for the write tool,
\* 10 for every other tool.
ConfiguredLimit(k) == IF k[3] = "confirmarAsistencia" THEN 3 ELSE 10

\* C21: the window of every key never retains more timestamps than the
\* limit of the key's tool class, and after an admission check the window
\* of the checked key holds no timestamp that was 60 or more old at the
\* check.
C21_WindowBoundedAndPruned ==
    /\ \A k \in RateKeys : Len(requests[k]) <= ConfiguredLimit(k)
    /\ rateResult.status # 0 =>
          \A i \in DOMAIN requests[rateResult.key] :
              rateResult.at - requests[rateResult.key][i] < 60

\* A check at time 60 pruned the requests of time 0 and admitted the
\* request, which filled the window to its limit again.
C21_Witness ==
    /\ rateResult.status = 200
    /\ rateResult.at = 60
    /\ Len(requests[rateResult.key]) = ConfiguredLimit(rateResult.key)
    /\ Len(admitted[rateResult.key]) > Len(requests[rateResult.key])
    /\ admitted[rateResult.key][1] = 0
    /\ \A i \in DOMAIN requests[rateResult.key] : requests[rateResult.key][i] >= 1

\* C23: a step in which the admission check of a key is refused leaves in
\* the key's window exactly the timestamps it held that are less than 60
\* old, in their order, and records no admission.
C23_RejectionRecordsNothing ==
    [][\A k \in RateKeys :
          (rateResult'.status = 429 /\ rateResult'.key = k /\ rateResult'.at = now /\ now' = now)
          => /\ requests'[k] = SelectSeq(requests[k], LAMBDA req_time : now - req_time < 60)
             /\ admitted'[k] = admitted[k]]_vars

\* A request was refused at time 60 while the window held, at its limit,
\* only requests of times 1 and 60: those of time 0 had been pruned and the
\* refused request is not among the retained ones.
C23_Witness ==
    /\ rateResult.status = 429
    /\ rateResult.at = 60
    /\ requests[rateResult.key][1] = 1
    /\ Len(requests[rateResult.key]) = ConfiguredLimit(rateResult.key)
    /\ Len(admitted[rateResult.key]) = 2 * ConfiguredLimit(rateResult.key) - 1

\* C26: at every instant the admitted requests of a key whose timestamp
\* lies in (now - 60, now] are at most the limit, and a request is refused
\* only when as many as the limit lie in (at - 60, at]: an admitted request
\* exactly 60 old does not count.
C26_TrailingIntervalBound ==
    /\ \A k \in RateKeys :
          Cardinality({i \in DOMAIN admitted[k] :
                          now - 60 < admitted[k][i] /\ admitted[k][i] <= now})
             <= ConfiguredLimit(k)
    /\ rateResult.status = 429 =>
          Cardinality({i \in DOMAIN admitted[rateResult.key] :
                          rateResult.at - 60 < admitted[rateResult.key][i]})
             >= ConfiguredLimit(rateResult.key)

\* The limit was used up at time 0 and a request made at time 60, exactly
\* 60 after the oldest admitted one, was allowed.
C26_Witness ==
    /\ rateResult.status = 200
    /\ rateResult.at = 60
    /\ Len(admitted[rateResult.key]) = ConfiguredLimit(rateResult.key) + 1
    /\ \A i \in 1..ConfiguredLimit(rateResult.key) : admitted[rateResult.key][i] = 0
    /\ admitted[rateResult.key][ConfiguredLimit(rateResult.key) + 1] = 60

\* C22: of two requests for one key that were in flight together, both
\* having arrived when the key's window held one timestamp less than the
\* limit, at most one was allowed.
C22_AtMostOneAtTheBoundary ==
    \A p \in Sessions, q \in Sessions :
        (/\ p # q
         /\ rateCalls[p].pc \in {"service", "refused"}
         /\ rateCalls[q].pc \in {"service", "refused"}
         /\ Len(rateCalls[p].window) = rate_limit_reads_per_second - 1
         /\ Len(rateCalls[q].window) = rate_limit_reads_per_second - 1)
        => ~(rateCalls[p].pc = "service" /\ rateCalls[q].pc = "service")

\* Both requests arrived with nine timestamps in the window; the first to
\* run was allowed, the other was refused, and the window holds ten.
C22_Witness ==
    /\ rateCalls["s1"].pc = "refused"
    /\ rateCalls["s2"].pc = "service"
    /\ Len(rateCalls["s1"].window) = 9
    /\ Len(rateCalls["s2"].window) = 9
    /\ Len(requests[RateKey("u1", "getEventos")]) = 10

\* -------------------------------------------------------- cache: properties
\* C7: a call of a cacheable tool (mapaSalaEvento, getAforo, getEventos,
\* getInscritos, getEstadisticas) that finds a live entry for its key returns
\* the cached value without running the store computation; on a miss the
\* computation runs and its result is stored under the key.
C7_CacheAsideReads ==
    (/\ cacheResult.op = "call"
     /\ cacheResult.tool \in {"mapaSalaEvento", "getAforo", "getEventos",
                              "getInscritos", "getEstadisticas"}
     /\ cacheResult.healthy)
    => IF cacheResult.cached # {}
       THEN ~cacheResult.computed /\ cacheResult.value = cacheResult.cached
       ELSE cacheResult.computed /\ cacheResult.stored

\* C8: for confirmarAsistencia, buscarRegistro and every tool name that is
\* not in the lifetime table, cache_get reports a miss and cache_set stores
\* nothing, neither contacts the backend, and the cache never holds an
\* entry of such a tool.
C8_UncachedToolsBypassCache ==
    LET cacheable == {"mapaSalaEvento", "getAforo", "getEventos",
                      "getInscritos", "getEstadisticas"}
    IN
    /\ (cacheResult.op \in {"get", "set"} /\ cacheResult.tool \notin cacheable)
       => /\ cacheResult.op = "get" => cacheResult.value = {}
          /\ ~cacheResult.stored
          /\ ~cacheResult.contacted
    /\ \A t \in CacheTools \ cacheable, b \in ParamBags :
          redisData[GetCacheKey(t, b)] = {}

\* cache_set of a tool outside the table was refused while the cache was
\* connected, answering and holding an entry of a cached tool.
C8_Witness ==
    /\ cacheResult.op = "set"
    /\ cacheResult.tool = "getSalas"
    /\ cacheResult.healthy
    /\ ~cacheResult.stored
    /\ \E k \in CacheKeys : redisData[k] # {}

\* C9: no cache operation raises; while the cache is not connected or the
\* backend does not answer, a read is a miss and a write is not stored; and
\* a tool call is answered with its computed result whatever the state of
\* the cache.
C9_CacheFailsOpen ==
    /\ ~cacheResult.raised
    /\ (cacheResult.op \in {"get", "set"} /\ ~cacheResult.healthy)
       => /\ cacheResult.op = "get" => cacheResult.value = {}
          /\ ~cacheResult.stored
    /\ cacheResult.op = "call"
       => cacheResult.computed /\ cacheResult.value = {GetAforo(1)}

\* A read of a cached tool reached a backend that did not answer, while an
\* entry for its key existed, and came back as a miss.
C9_Witness ==
    /\ cacheResult.op = "get"
    /\ cacheResult.tool = "getAforo"
    /\ cacheResult.contacted
    /\ ~cacheResult.healthy
    /\ cacheResult.cached # {}
    /\ cacheResult.value = {}

\* C10: while an entry stored for a tool with a lifetime of 60 is less than
\* 60 old, an identical call, and an identical cache read, gets the value
\* that was stored, unchanged; from 60 on the entry is gone, the read is a
\* miss and the call gets the freshly computed value.
C10_ServedUnchangedUntilTtl ==
    /\ \A k \in CacheKeys : \A e \in redisData[k] :
          now < e.expires /\ e.expires <= now + 60
    /\ (/\ cacheResult.op \in {"get", "call"}
        /\ cacheResult.tool \in {"getAforo", "mapaSalaEvento"}
        /\ cacheResult.healthy)
       => IF cacheResult.cached # {}
          THEN cacheResult.value = cacheResult.cached
          ELSE cacheResult.value =
                 IF cacheResult.op = "call" THEN {GetAforo(1)} ELSE {}

\* ------------------------------------------------ cache helpers: properties
\* C18: every value in scope (number, string, dict or list of them) that is
\* stored with RedisCache.set and read back with RedisCache.get comes back
\* equal to the value stored, in type and content.
C18_RoundTripEqual ==
    roundTrip.done => roundTrip.got = roundTrip.value

\* The keyword arguments of a bag that are not None, as (name, value) pairs.
NonNullPairs(params) ==
    {<<params[i].name, params[i].value>> :
        i \in {j \in DOMAIN params : params[j].value # NoneParam}}

\* C19: two requests to one tool whose keyword arguments have the same set
\* of non-null (name, value) pairs get the same key from get_cache_key,
\* whatever the order of the arguments and whichever of them are None.
C19_KeyDeterminedByNonNullPairs ==
    (keyResult.done /\ NonNullPairs(keyResult.first) = NonNullPairs(keyResult.second))
        => keyResult.first_key = keyResult.second_key

\* C30: two requests to one tool whose keyword arguments differ in their
\* set of non-null (name, value) pairs get different keys from
\* get_cache_key, also when a value holds '&' or '=' and when two values
\* differ only in type.
C30_KeysSeparateRequests ==
    (keyResult.done /\ NonNullPairs(keyResult.first) # NonNullPairs(keyResult.second))
        => keyResult.first_key # keyResult.second_key

\* Two calls with the same two arguments in opposite orders: both got the
\* key that lists eventoId before sala.
C19_Witness ==
    /\ keyResult.done
    /\ keyResult.first = <<Param("sala", StrParam), Param("eventoId", IntParam)>>
    /\ keyResult.second = <<Param("eventoId", IntParam), Param("sala", StrParam)>>
    /\ keyResult.first_key = keyResult.second_key
    /\ keyResult.first_key =
          <<"mcp", ":", "getAforo", ":", "eventoId", "=", "1", "&", "sala", "=", "A">>

\* --------------------------------------------------- statistics: properties
\* A getEstadisticas call the schema accepted, with a well-formed range, on
\* a store that answers.
StatsHealthyCall ==
    /\ statsResult.status # 0
    /\ ValidInput(statsResult.input)
    /\ statsResult.input.rango = "valid"
    /\ ~statsResult.db.failing

StatsRequested(name) ==
    \E i \in DOMAIN statsResult.input.kpis : statsResult.input.kpis[i] = name

StatsReturned(name) ==
    {statsResult.kpis[i] : i \in {j \in DOMAIN statsResult.kpis :
                                     statsResult.kpis[j].nombre = name}}

\* C11: a getEstadisticas call that passed the schema is never answered with
\* an error, whether the store fails or the date range is malformed; and
\* when nothing fails, every requested KPI is returned, in request order.
C11_KpiFailuresIsolated ==
    /\ (statsResult.status # 0 /\ ValidInput(statsResult.input))
       => statsResult.status = 200
    /\ StatsHealthyCall
       => /\ Len(statsResult.kpis) = Len(statsResult.input.kpis)
          /\ \A i \in DOMAIN statsResult.kpis :
                statsResult.kpis[i].nombre = statsResult.input.kpis[i]

\* C12: a requested tasaAsistencia is returned with the value
\* attended*100/inscritos rounded to 2 decimals (here in hundredths), and
\* with 0 when there are no registrations.
C12_TasaAsistenciaValue ==
    (StatsHealthyCall /\ StatsRequested("tasaAsistencia"))
    => LET ins == Cardinality(statsResult.db.registros)
           att == statsResult.db.asistieron
       IN /\ StatsReturned("tasaAsistencia") # {}
          /\ \A k \in StatsReturned("tasaAsistencia") :
                IF ins = 0 THEN k.valor = 0
                ELSE /\ 2 * (k.valor * ins - att * 10000) <= ins
                     /\ 2 * (att * 10000 - k.valor * ins) <= ins

\* C13: a requested noShow is returned with the value inscritos - attended,
\* negative when more attended than registered.
C13_NoShowValue ==
    (StatsHealthyCall /\ StatsRequested("noShow"))
    => /\ StatsReturned("noShow") # {}
       /\ \A k \in StatsReturned("noShow") :
             k.valor = Cardinality(statsResult.db.registros)
                         - statsResult.db.asistieron

\* A breakdown lists at most 10 groups, all the groups with registrations
\* when there are at most 10, by count descending and by name ascending
\* among equal counts.
TopTenByCountThenName(detalle, groups, count, before(_, _)) ==
    /\ Len(detalle) <= 10
    /\ {detalle[i][1] : i \in DOMAIN detalle} = {g \in groups : count[g] > 0}
    /\ \A i \in DOMAIN detalle : detalle[i][2] = count[detalle[i][1]]
    /\ \A i, j \in DOMAIN detalle :
          i < j => \/ detalle[i][2] > detalle[j][2]
                   \/ /\ detalle[i][2] = detalle[j][2]
                      /\ before(detalle[i][1], detalle[j][1])

\* C14: leadsPorFuente and eventosMasPopulares return the top 10 groups by
\* registration count, descending, equal counts by name ascending, and the
\* value of leadsPorFuente is the number of leads in range.
C14_TopTenBreakdowns ==
    LET regs == statsResult.db.registros
        porEmpresa == [e \in Empresas |-> Cardinality({r \in regs : r[1] = e})]
        porEvento == [e \in StatEventos |-> Cardinality({r \in regs : r[2] = e})]
    IN
    /\ (StatsHealthyCall /\ StatsRequested("leadsPorFuente"))
       => /\ StatsReturned("leadsPorFuente") # {}
          /\ \A k \in StatsReturned("leadsPorFuente") :
                /\ k.valor = Cardinality(regs)
                /\ TopTenByCountThenName(k.detalle, Empresas, porEmpresa,
                       LAMBDA a, b : a = "Acme" /\ b = "Zeta")
    /\ (StatsHealthyCall /\ StatsRequested("eventosMasPopulares"))
       => /\ StatsReturned("eventosMasPopulares") # {}
          /\ \A k \in StatsReturned("eventosMasPopulares") :
                TopTenByCountThenName(k.detalle, StatEventos, porEvento,
                       LAMBDA a, b : a < b)

\* ------------------------------------------------------ gateway: properties
\* C15: get_current_user yields a principal exactly for a credential with a
\* valid signature, an expiry in the future, a subject, a display name and a
\* role of UserRole; every other credential is answered 401, never 500.
C15_AuthenticateOutcome ==
    authResult.status # 0 =>
        IF Authenticates(authResult.token)
        THEN /\ authResult.status \in {200, 403}
             /\ authResult.user.user_id = authResult.token.sub
        ELSE authResult.status = 401 /\ authResult.user = NoUser

\* C16: every response carries the trace identifier, and every error
\* response (401, 403, 404, 429, 500) carries a machine-readable error code
\* and a message.
C16_ResponsesCarryTraceAndCode ==
    response.status # 0 =>
        /\ response.trace_header \/ response.trace_body
        /\ response.status \in {401, 403, 404, 429, 500}
           => response.error # {} /\ response.message

\* C17: a request that fails authentication, authorization or validation is
\* answered without any store query or cache operation; and a request whose
\* body is malformed (for getEstadisticas also a malformed date range), once
\* past authentication and authorization, is answered with a validation
\* error and no store query.
C17_FailuresBeforeStoreAccess ==
    /\ response.origin \in {"global", "auth", "permission", "validation"}
       => response.queries = 0 /\ response.cache_ops = 0
    /\ response.invalid_input
       => /\ response.origin = "validation"
          /\ response.status = 422
          /\ response.queries = 0

\* C27: a tool call that is rejected by authentication (401) or by the
\* permission check (403) leaves the window of every rate-limiter key as it
\* was and admits nothing.
C27_RejectedCallsConsumeNoQuota ==
    [][response'.origin \in {"auth", "permission"}
         => (requests' = requests /\ admitted' = admitted /\ rateResult' = rateResult)]_vars

\* A LECTOR's confirmarAsistencia call was answered 403 while the write
\* window of the principal holds the two timestamps of earlier calls, one
\* short of the limit.
C27_Witness ==
    /\ response.status = 403
    /\ response.origin = "permission"
    /\ Len(requests[<<"u1", ":", "confirmarAsistencia">>]) = 2
    /\ rateResult.status = 200

\* C28: an admission check of principal p for tool t leaves the window of
\* every other principal and of every other tool of p unchanged, and it is
\* refused only when the window of p and t itself is at its limit.
C28_OnlyOwnWindow ==
    /\ [](\A k \in DOMAIN requests :
            (rateResult.status = 429 /\ k[1] = rateResult.user /\ k[3] = rateResult.tool)
            => Len(requests[k]) >= ConfiguredLimit(k))
    /\ [][\A k \in DOMAIN requests :
            (k[1] # rateResult'.user \/ k[3] # rateResult'.tool)
            => (requests'[k] = requests[k] /\ admitted'[k] = admitted[k])]_vars

\* Principal u1 has used up the write limit, and a call of the write tool by
\* u2 is allowed, as was a call of the read tool by u1.
C28_Witness ==
    /\ Len(requests[<<"u1", ":", "confirmarAsistencia">>]) = 3
    /\ Len(requests[<<"u1", ":", "getAforo">>]) = 1
    /\ Len(requests[<<"u2", ":", "confirmarAsistencia">>]) = 1
    /\ rateResult.status = 200
    /\ rateResult.user = "u2"
    /\ rateResult.tool = "confirmarAsistencia"

====
